---- MODULE Spec2Model ----
(***************************************************************************)
(* Crossover detection (StockDataFetcher.calculate_indicators) and the     *)
(* dashboard scan (StockApp.show_dashboard) of StockAnalyzer.              *)
(*                                                                         *)
(* Numbers.  The code computes in floating point; the model computes the   *)
(* same recurrences in exact rational arithmetic.  A number is a record    *)
(* [nan, n, d]: NaN, or the non-negative rational n/d, n and d arbitrary   *)
(* precision naturals (little-endian limbs), because the EMA of a 60-row   *)
(* series has a denominator of (emaPeriod+1)^59.                           *)
(***************************************************************************)
EXTENDS Integers, Sequences, FiniteSets, TLC

VARIABLES
    frame,          \* calculate_indicators: the object passed as df
    frame0,         \* its value when the call was made
    ema_period,     \* st.session_state.ema_period / the ema_period argument
    sma_period,     \* st.session_state.sma_period / the sma_period argument
    ret,            \* calculate_indicators: the value returned
    pc_calc,        \* "idle" | "call" | "returned"
    symbols,        \* self.symbols, the scan universe
    days_to_look_back,
    i,              \* number of symbols the scan loop has gone through
    df,             \* the loop's df after its last iteration
    fetch_log,      \* what happened inside each fetch_stock_data so far
    crossover_data, \* the list of collected events
    progress_bar,   \* the value the progress bar shows
    progress_calls, \* the values passed to progress_bar.progress, in order
    cancel_requested, \* the caller has asked for the scan to stop
    cancel_at,      \* the value of i when it asked
    df_crossover,   \* the sorted table
    signal_filter,  \* the multiselect's value
    filtered_df,    \* the filtered table (before the symbols become links)
    metrics,        \* the st.metric calls: <<label, value>> pairs
    table,          \* the table written to the page
    message,        \* the text written when there is no table
    pc              \* "idle" | "start" | "scan" | "shown"

calc_vars == <<frame, frame0, ret, pc_calc>>

scan_vars == <<symbols, days_to_look_back, i, df, fetch_log, crossover_data,
               progress_bar, progress_calls, cancel_requested, cancel_at>>

view_vars == <<df_crossover, signal_filter, filtered_df, metrics, table, message>>

vars == <<frame, frame0, ema_period, sma_period, ret, pc_calc,
          symbols, days_to_look_back, i, df, fetch_log, crossover_data,
          progress_bar, progress_calls, cancel_requested, cancel_at,
          df_crossover, signal_filter, filtered_df, metrics, table, message, pc>>

(***************************************************************************)
(* Bounds of the model.                                                    *)
(***************************************************************************)
MaxLen == 4         \* longest enumerated price series
MaxPrice == 3       \* closes are drawn from 1..MaxPrice
MaxPeriod == 3      \* periods are drawn from 1..MaxPeriod
NumSymbols == 2     \* size of the symbol pool the universe is drawn from
MaxLookback == 3    \* the slider's value is drawn from 1..MaxLookback

\* st.session_state defaults.
DefaultEma == 14
DefaultSma == 50

(***************************************************************************)
(* Arbitrary precision naturals.                                           *)
(***************************************************************************)
Base == 10 ^ 4

RECURSIVE BigFromNat(_)
BigFromNat(x) ==
    IF x = 0 THEN <<>> ELSE <<x % Base>> \o BigFromNat(x \div Base)

\* Carry propagation over the columns lo..hi of raw (values not yet reduced
\* below Base), low column first, with the carry coming in; the range is
\* halved so that evaluation stays shallow.
RECURSIVE BigCarryRange(_, _, _, _)
BigCarryRange(raw, lo, hi, carry) ==
    IF lo = hi
    THEN LET v == raw[lo] + carry
         IN  [limbs |-> <<v % Base>>, carry |-> v \div Base]
    ELSE LET mid   == (lo + hi) \div 2
             left  == BigCarryRange(raw, lo, mid, carry)
             right == BigCarryRange(raw, mid + 1, hi, left.carry)
         IN  [limbs |-> left.limbs \o right.limbs, carry |-> right.carry]

BigNormalize(raw) ==
    IF raw = <<>> THEN <<>>
    ELSE LET r == BigCarryRange(raw, 1, Len(raw), 0)
         IN  r.limbs \o BigFromNat(r.carry)

BigLimb(a, j) == IF j <= Len(a) THEN a[j] ELSE 0

BigMulSmall(a, k) ==
    IF k = 0 THEN <<>> ELSE BigNormalize([j \in 1..Len(a) |-> a[j] * k])

BigAdd(a, b) ==
    LET n == IF Len(a) > Len(b) THEN Len(a) ELSE Len(b)
    IN  BigNormalize([j \in 1..n |-> BigLimb(a, j) + BigLimb(b, j)])

\* a * Base^m
BigShift(a, m) == IF a = <<>> THEN a ELSE [j \in 1..m |-> 0] \o a

\* a times the limbs lo..hi of b, each at its own place.
RECURSIVE BigMulRange(_, _, _, _)
BigMulRange(a, b, lo, hi) ==
    IF lo = hi THEN BigShift(BigMulSmall(a, b[lo]), lo - 1)
    ELSE LET mid == (lo + hi) \div 2
         IN  BigAdd(BigMulRange(a, b, lo, mid), BigMulRange(a, b, mid + 1, hi))

BigMul(a, b) ==
    IF a = <<>> \/ b = <<>> THEN <<>> ELSE BigMulRange(a, b, 1, Len(b))

\* Two numbers of the same length compare as their highest differing limbs.
BigLess(a, b) ==
    IF Len(a) # Len(b) THEN Len(a) < Len(b)
    ELSE LET differ == {k \in 1..Len(a) : a[k] # b[k]}
         IN  /\ differ # {}
             /\ LET top == CHOOSE k \in differ : \A j \in differ : j <= k
                IN  a[top] < b[top]

(***************************************************************************)
(* Floating point values: NaN or a rational.  Every comparison with NaN is *)
(* false, as in numpy.                                                     *)
(***************************************************************************)
NaN == [nan |-> TRUE, n |-> <<>>, d |-> <<>>]

Num(x) == [nan |-> FALSE, n |-> BigFromNat(x), d |-> BigFromNat(1)]

NumGt(a, b) ==
    /\ ~a.nan
    /\ ~b.nan
    /\ BigLess(BigMul(b.n, a.d), BigMul(a.n, b.d))

NumLt(a, b) == NumGt(b, a)

NumLe(a, b) == ~a.nan /\ ~b.nan /\ ~NumGt(a, b)

NumGe(a, b) == NumLe(b, a)

(***************************************************************************)
(* DataFrames.  A frame is None or a record of its index (the row dates)   *)
(* and its columns, a function from column names to equally long           *)
(* sequences.  The Close column holds integers (the price in some unit).   *)
(***************************************************************************)
NoneFrame == [isNone |-> TRUE, index |-> <<>>, data |-> <<>>]

DataFrame(index, closes) ==
    [isNone |-> FALSE, index |-> index, data |-> [c \in {"Close"} |-> closes]]

Columns(fr) == DOMAIN fr.data

NRows(fr) == Len(fr.index)

IsEmpty(fr) == NRows(fr) = 0

SetColumn(fr, name, col) ==
    [fr EXCEPT !.data = [c \in (DOMAIN fr.data) \cup {name} |->
                             IF c = name THEN col ELSE fr.data[c]]]

EmaName(p) == "EMA" \o ToString(p)

SmaName(p) == "SMA" \o ToString(p)

(***************************************************************************)
(* df['Close'].ewm(span=ema_period, adjust=False).mean():                  *)
(*   y[0] = x[0],  y[t] = a*x[t] + (1-a)*y[t-1],  a = 2/(span+1)           *)
(* that is y[t] = (2*x[t] + (span-1)*y[t-1]) / (span+1).                   *)
(***************************************************************************)
EwmStep(prev, x, span) ==
    [nan |-> FALSE,
     n   |-> BigAdd(BigMulSmall(prev.d, 2 * x), BigMulSmall(prev.n, span - 1)),
     d   |-> BigMulSmall(prev.d, span + 1)]

\* Rows lo..hi of the mean, given the mean of the row before lo (prev is not
\* read when lo = 1).  The rows are computed in order, each from the one
\* before it; the range is halved so that evaluation stays shallow.
RECURSIVE EwmFrom(_, _, _, _, _)
EwmFrom(closes, span, prev, lo, hi) ==
    IF lo = hi
    THEN <<IF lo = 1 THEN Num(closes[1]) ELSE EwmStep(prev, closes[lo], span)>>
    ELSE LET mid  == (lo + hi) \div 2
             left == EwmFrom(closes, span, prev, lo, mid)
         IN  left \o EwmFrom(closes, span, left[Len(left)], mid + 1, hi)

EwmMean(closes, span) ==
    IF closes = <<>> THEN <<>> ELSE EwmFrom(closes, span, NaN, 1, Len(closes))

(***************************************************************************)
(* df['Close'].rolling(window=sma_period).mean(): NaN for the first        *)
(* window-1 rows (min_periods defaults to the window), then the mean of    *)
(* the trailing window closes.                                             *)
(***************************************************************************)
RECURSIVE SumRange(_, _, _)
SumRange(closes, lo, hi) ==
    IF lo > hi THEN 0
    ELSE IF lo = hi THEN closes[lo]
    ELSE LET mid == (lo + hi) \div 2
         IN  SumRange(closes, lo, mid) + SumRange(closes, mid + 1, hi)

\* Mutant: min_periods=1, the mean of the rows there are so far.
RollingMeanPartial(closes, window) ==
    [t \in 1..Len(closes) |->
        [nan |-> FALSE,
         n   |-> BigFromNat(SumRange(closes, IF t < window THEN 1 ELSE t - window + 1, t)),
         d   |-> BigFromNat(IF t < window THEN t ELSE window)]]

RollingMean(closes, window) ==
    [t \in 1..Len(closes) |->
        IF t < window THEN NaN
        ELSE [nan |-> FALSE,
              n   |-> BigFromNat(SumRange(closes, t - window + 1, t)),
              d   |-> BigFromNat(window)]]

\* Series.shift(1): row t holds the value of row t-1, the first row NaN.
Shift1(col) == [t \in 1..Len(col) |-> IF t = 1 THEN NaN ELSE col[t - 1]]

\* Mutant: the row before must be strictly on the other side, so that a
\* crossing out of a tie is missed.
CrossoverColumnStrict(ema, sma) ==
    LET ema1 == Shift1(ema)
        sma1 == Shift1(sma)
    IN  [t \in 1..Len(ema) |->
            IF NumGt(ema[t], sma[t]) /\ NumLt(ema1[t], sma1[t]) THEN "GOLDEN"
            ELSE IF NumLt(ema[t], sma[t]) /\ NumGt(ema1[t], sma1[t]) THEN "DEATH"
            ELSE "NONE"]

\* Mutant: the label follows the side EMA is on, not the change of side.
CrossoverColumnLevel(ema, sma) ==
    [t \in 1..Len(ema) |->
        IF NumGt(ema[t], sma[t]) THEN "GOLDEN"
        ELSE IF NumLt(ema[t], sma[t]) THEN "DEATH"
        ELSE "NONE"]

\* The nested np.where of lines 96-104.
CrossoverColumn(ema, sma) ==
    LET ema1 == Shift1(ema)
        sma1 == Shift1(sma)
    IN  [t \in 1..Len(ema) |->
            IF NumGt(ema[t], sma[t]) /\ NumLe(ema1[t], sma1[t]) THEN "GOLDEN"
            ELSE IF NumLt(ema[t], sma[t]) /\ NumGe(ema1[t], sma1[t]) THEN "DEATH"
            ELSE "NONE"]

\* The frame object after lines 92-104 have assigned the three columns.
WithIndicators(fr, e, s) ==
    LET ema == EwmMean(fr.data["Close"], e)
        sma == RollingMean(fr.data["Close"], s)
        d1  == SetColumn(fr, EmaName(e), ema)
        d2  == SetColumn(d1, SmaName(s), sma)
    IN  SetColumn(d2, "Crossover", CrossoverColumn(ema, sma))

\* Mutant: the columns are assigned to a copy.
FrameAfterCallOnCopy(fr, e, s) == fr

\* What calculate_indicators leaves in the object it was passed.
FrameAfterCall(fr, e, s) ==
    IF fr.isNone \/ IsEmpty(fr) THEN fr ELSE WithIndicators(fr, e, s)

\* What calculate_indicators returns: None, or the object it was passed.
calculate_indicators(fr, e, s) ==
    IF fr.isNone \/ IsEmpty(fr) THEN NoneFrame ELSE FrameAfterCall(fr, e, s)

(***************************************************************************)
(* Inputs of the calculation: None, the empty frame, every series of up to *)
(* MaxLen closes in 1..MaxPrice with periods in 1..MaxPeriod, and the      *)
(* rising series of 60 closes from 50 to 150 in equal steps (prices in     *)
(* units of 1/59) with periods 12 and 26.                                  *)
(***************************************************************************)
Prices == 1..MaxPrice

Periods == 1..MaxPeriod

SeriesUpTo(n) == UNION {[1..k -> Prices] : k \in 0..n}

Dates(n) == [t \in 1..n |-> t]

RisingCloses == [t \in 1..60 |-> 59 * 50 + 100 * (t - 1)]

RisingPeriods == [ema |-> 12, sma |-> 26]

SmallFrames ==
    {NoneFrame} \cup {DataFrame(Dates(Len(c)), c) : c \in SeriesUpTo(MaxLen)}

\* The dashboard is not running.
ScanIdle ==
    /\ symbols = <<>>
    /\ days_to_look_back = 1
    /\ i = 0
    /\ df = NoneFrame
    /\ fetch_log = <<>>
    /\ crossover_data = <<>>
    /\ progress_bar = <<0, 1>>
    /\ progress_calls = <<>>
    /\ cancel_requested = FALSE
    /\ cancel_at = 0
    /\ df_crossover = <<>>
    /\ signal_filter = {}
    /\ filtered_df = <<>>
    /\ metrics = <<>>
    /\ table = <<>>
    /\ message = ""
    /\ pc = "idle"

InitCalc ==
    /\ \/ /\ frame \in SmallFrames
          /\ ema_period \in Periods
          /\ sma_period \in Periods
       \/ /\ frame = DataFrame(Dates(60), RisingCloses)
          /\ ema_period = RisingPeriods.ema
          /\ sma_period = RisingPeriods.sma
    /\ frame0 = frame
    /\ ret = NoneFrame
    /\ pc_calc = "call"
    /\ ScanIdle

CalculateIndicators ==
    /\ pc_calc = "call"
    /\ frame' = FrameAfterCall(frame, ema_period, sma_period)
    /\ ret' = calculate_indicators(frame, ema_period, sma_period)
    /\ pc_calc' = "returned"
    /\ UNCHANGED <<frame0, ema_period, sma_period, scan_vars, view_vars, pc>>

NextCalc == CalculateIndicators

SpecCalc == InitCalc /\ [][NextCalc]_vars

(***************************************************************************)
(* The dashboard scan (StockApp.show_dashboard).                           *)
(***************************************************************************)
SymbolNames == <<"A", "B", "C", "D">>

SymbolPool == {SymbolNames[k] : k \in 1..NumSymbols}

\* Python's < on two of the pool's one-letter symbols.
SymbolLess(a, b) ==
    \E j, k \in 1..Len(SymbolNames) :
        SymbolNames[j] = a /\ SymbolNames[k] = b /\ j < k

\* Sequences of distinct symbols: the universes a scan may be given.
Universes ==
    {u \in UNION {[1..n -> SymbolPool] : n \in 0..NumSymbols} :
        \A j, k \in DOMAIN u : j # k => u[j] # u[k]}

\* The histories a fetch may return in the scan, and the periods the user may
\* enter: with EMA 2 over SMA 1 or EMA 1 over SMA 2 they give a GOLDEN or a
\* DEATH row at the last row, at an earlier row, at both, or nowhere.
SampleCloses == {<<2, 1>>, <<1, 2>>, <<2, 1, 1>>, <<2, 1, 2>>, <<1, 1>>}

SamplePeriods == {1, 2}

\* What yf.Ticker(symbol).history(...) does: it raises, or returns a frame
\* (an empty one when there is no data).
HistoryOutcomes ==
    {[raises |-> TRUE, history |-> NoneFrame]} \cup
    {[raises |-> FALSE, history |-> DataFrame(Dates(Len(c)), c)] :
        c \in SampleCloses \cup {<<>>}}

fetch_stock_data(outcome) ==
    IF outcome.raises THEN NoneFrame
    ELSE IF ~IsEmpty(outcome.history) THEN outcome.history
    ELSE NoneFrame

FetchKind(outcome) ==
    IF outcome.raises THEN "raise"
    ELSE IF IsEmpty(outcome.history) THEN "empty"
    ELSE "data"

Min(a, b) == IF a < b THEN a ELSE b

\* The frame holding the rows of fr at the given positions, in that order.
TakeRows(fr, rows) ==
    [fr EXCEPT
        !.index = [k \in 1..Len(rows) |-> fr.index[rows[k]]],
        !.data  = [c \in DOMAIN fr.data |->
                      [k \in 1..Len(rows) |-> fr.data[c][rows[k]]]]]

\* Mutant: DataFrame.head(n).
DfHead(fr, n) ==
    LET m == Min(n, NRows(fr))
    IN  TakeRows(fr, [k \in 1..m |-> k])

\* DataFrame.tail(n), n >= 1: the last n rows, all of them when there are fewer.
DfTail(fr, n) ==
    LET m == Min(n, NRows(fr))
    IN  TakeRows(fr, [k \in 1..m |-> NRows(fr) - m + k])

\* recent_data[recent_data['Crossover'] != 'NONE']
NotNone(fr) ==
    LET Keep(k) == fr.data["Crossover"][k] # "NONE"
    IN  TakeRows(fr, SelectSeq([k \in 1..NRows(fr) |-> k], Keep))

\* The dictionary appended for row k of the frame of crossovers.
EventOfRow(symbol, fr, k, e, s) ==
    ("Symbol" :> symbol) @@ ("Crossover" :> fr.data["Crossover"][k]) @@
    ("Price" :> fr.data["Close"][k]) @@ ("Date" :> fr.index[k]) @@
    (EmaName(e) :> fr.data[EmaName(e)][k]) @@
    (SmaName(s) :> fr.data[SmaName(s)][k])

\* The dictionaries lines 95-107 append for one symbol's frame.
CollectedFrom(symbol, fr, n, e, s) ==
    IF ~fr.isNone /\ ~IsEmpty(fr)
    THEN LET crossovers == NotNone(DfTail(fr, n))
         IN  [k \in 1..NRows(crossovers) |-> EventOfRow(symbol, crossovers, k, e, s)]
    ELSE <<>>

\* The loop's df at the end of an iteration whose fetch returned fetched.
LoopFrame(fetched, e, s) ==
    IF ~fetched.isNone THEN calculate_indicators(fetched, e, s) ELSE fetched

Init ==
    /\ symbols \in Universes
    /\ ema_period = DefaultEma
    /\ sma_period = DefaultSma
    /\ days_to_look_back = 1
    /\ i = 0
    /\ df = NoneFrame
    /\ fetch_log = <<>>
    /\ crossover_data = <<>>
    /\ progress_bar = <<0, 1>>
    /\ progress_calls = <<>>
    /\ cancel_requested = FALSE
    /\ cancel_at = 0
    /\ df_crossover = <<>>
    /\ signal_filter = {}
    /\ filtered_df = <<>>
    /\ metrics = <<>>
    /\ table = <<>>
    /\ message = ""
    /\ pc = "start"
    /\ frame = NoneFrame
    /\ frame0 = NoneFrame
    /\ ret = NoneFrame
    /\ pc_calc = "idle"

\* Lines 76-89: the widgets are read, the progress bar made, the list emptied.
StartDashboard ==
    /\ pc = "start"
    /\ days_to_look_back' \in 1..MaxLookback
    /\ ema_period' \in SamplePeriods
    /\ sma_period' \in SamplePeriods
    /\ progress_bar' = <<0, 1>>
    /\ crossover_data' = <<>>
    /\ pc' = "scan"
    /\ UNCHANGED <<symbols, i, df, fetch_log, progress_calls,
                   cancel_requested, cancel_at, view_vars, calc_vars>>

\* Mutant: the loop also ends when the caller has asked it to.
LoopEndedOrCancelled == i = Len(symbols) \/ cancel_requested

\* The for loop of line 91 has gone through every symbol.
LoopEnded == i = Len(symbols)

\* Mutant: i / len(self.symbols).
ProgressValueFromIndex(k, n) == <<k, n>>

\* (i + 1) / len(self.symbols), as the pair <<numerator, denominator>>.
ProgressValue(k, n) == <<k + 1, n>>

\* Lines 92-109 for symbols[i] (0-based) when the history request ends in
\* outcome; after_body is where control goes next.
LoopBody(outcome, after_body) ==
    LET symbol  == symbols[i + 1]
        fetched == fetch_stock_data(outcome)
        current == LoopFrame(fetched, ema_period, sma_period)
    IN  /\ df' = current
        /\ fetch_log' = Append(fetch_log, FetchKind(outcome))
        /\ crossover_data' = crossover_data \o
               CollectedFrom(symbol, current, days_to_look_back,
                             ema_period, sma_period)
        /\ progress_bar' = ProgressValue(i, Len(symbols))
        /\ progress_calls' = Append(progress_calls, ProgressValue(i, Len(symbols)))
        /\ i' = i + 1
        /\ pc' = after_body
        /\ UNCHANGED <<symbols, days_to_look_back, ema_period, sma_period,
                       cancel_requested, cancel_at, view_vars, calc_vars>>

\* Mutant: a failed fetch ends the scan.
IterateAbort(outcome) ==
    LoopBody(outcome, IF fetch_stock_data(outcome).isNone THEN "failed" ELSE "scan")

\* One iteration: fetch_stock_data swallows the exception, so whatever the
\* outcome the loop goes on to the next symbol.
Iterate(outcome) == LoopBody(outcome, "scan")

ScanSymbol ==
    /\ pc = "scan"
    /\ ~LoopEnded
    /\ \E outcome \in HistoryOutcomes : Iterate(outcome)

\* The caller asks for the scan to stop, after a symbol and before the next.
\* Nothing in show_dashboard reads the request.
RequestCancel ==
    /\ pc = "scan"
    /\ ~cancel_requested
    /\ 1 <= i
    /\ i < Len(symbols)
    /\ cancel_requested' = TRUE
    /\ cancel_at' = i
    /\ UNCHANGED <<symbols, days_to_look_back, ema_period, sma_period, i, df,
                   fetch_log, crossover_data, progress_bar, progress_calls,
                   view_vars, calc_vars, pc>>

(***************************************************************************)
(* Lines 112-164: the table.                                               *)
(***************************************************************************)
\* DataFrame.sort_values('Date', ascending=False) with the default sort kind
\* (quicksort, not stable): the rows by date descending, rows of one date in
\* an order the call does not determine.  Every such order is an outcome.
RECURSIVE OrdersOf(_, _)
OrdersOf(rows, left) ==
    IF left = {} THEN {<<>>}
    ELSE LET top == {k \in left : \A j \in left : rows[j]["Date"] <= rows[k]["Date"]}
         IN  UNION {{<<rows[k]>> \o rest : rest \in OrdersOf(rows, left \ {k})} :
                       k \in top}

\* Mutant: the sorted frame is not assigned back.
SortOutcomesDropped(rows) == {rows}

SortOutcomes(rows) == OrdersOf(rows, DOMAIN rows)

\* Mutant: the filter must name exactly the row's kind.
FilterSignalsExact(rows, filter) ==
    LET Keep(r) == filter = {r["Crossover"]}
    IN  SelectSeq(rows, Keep)

\* df_crossover[df_crossover['Crossover'].isin(signal_filter)]
FilterSignals(rows, filter) ==
    LET Keep(r) == r["Crossover"] \in filter
    IN  SelectSeq(rows, Keep)

\* len(filtered_df[filtered_df['Crossover'] == kind])
CountOf(rows, kind) ==
    LET Is(r) == r["Crossover"] = kind
    IN  Len(SelectSeq(rows, Is))

MetricsOf(rows) ==
    << <<"Golden Crosses", CountOf(rows, "GOLDEN")>>,
       <<"Death Crosses", CountOf(rows, "DEATH")>> >>

make_clickable(symbol) ==
    "<a href=\"javascript:void(0);\" onclick=\"handleClick('" \o symbol
        \o "')\">" \o symbol \o "</a>"

Clickable(rows) ==
    [k \in 1..Len(rows) |-> [rows[k] EXCEPT !["Symbol"] = make_clickable(@)]]

SignalOptions == {"GOLDEN", "DEATH"}

\* The loop has ended: the table is sorted, filtered, counted and written,
\* or the page says that there is nothing to show.
Display ==
    /\ pc = "scan"
    /\ LoopEnded
    /\ IF crossover_data # <<>>
       THEN \E sorted \in SortOutcomes(crossover_data), filter \in SUBSET SignalOptions :
              /\ df_crossover' = sorted
              /\ signal_filter' = filter
              /\ filtered_df' = FilterSignals(sorted, filter)
              /\ metrics' = MetricsOf(FilterSignals(sorted, filter))
              /\ table' = Clickable(FilterSignals(sorted, filter))
              /\ message' = ""
       ELSE /\ message' = "No recent crossovers found"
            /\ UNCHANGED <<df_crossover, signal_filter, filtered_df, metrics, table>>
    /\ pc' = "shown"
    /\ UNCHANGED <<scan_vars, ema_period, sma_period, calc_vars>>

Next ==
    \/ StartDashboard
    \/ ScanSymbol
    \/ Display

Spec == Init /\ [][Next]_vars

\* The scan with a caller who may ask for it to stop.
NextCancel ==
    \/ StartDashboard
    \/ ScanSymbol
    \/ RequestCancel
    \/ Display

SpecCancel == Init /\ [][NextCancel]_vars

(***************************************************************************)
(* Properties of calculate_indicators, checked under SpecCalc.             *)
(***************************************************************************)
Returned == pc_calc = "returned" /\ ~ret.isNone

EmaCol == ret.data[EmaName(ema_period)]

SmaCol == ret.data[SmaName(sma_period)]

Labels == ret.data["Crossover"]

Rows == 1..NRows(ret)

\* Row t has both averages (the EMA always is a number).
Defined(t) == t >= 1 /\ ~EmaCol[t].nan /\ ~SmaCol[t].nan

CrossProduct(a, b) == BigMul(a.n, b.d)

Above(t) == BigLess(CrossProduct(SmaCol[t], EmaCol[t]), CrossProduct(EmaCol[t], SmaCol[t]))

Below(t) == BigLess(CrossProduct(EmaCol[t], SmaCol[t]), CrossProduct(SmaCol[t], EmaCol[t]))

Tie(t) == Defined(t) /\ ~Above(t) /\ ~Below(t)

GoldenRows == {t \in Rows : Labels[t] = "GOLDEN"}

DeathRows == {t \in Rows : Labels[t] = "DEATH"}

\* C1: every row is labelled GOLDEN, DEATH or NONE; GOLDEN exactly when EMA is
\* above SMA at the row and not above it at the row before, DEATH exactly when
\* EMA is below SMA at the row and not below it at the row before, both
\* averages being defined at both rows; so NONE at the first row, at every row
\* up to the SMA period (SMA undefined there or at the row before) and at
\* every row where EMA equals SMA.
C1_CrossoverRule ==
    Returned =>
        \A t \in Rows :
            /\ Labels[t] \in {"GOLDEN", "DEATH", "NONE"}
            /\ (Labels[t] = "GOLDEN") <=>
                   (Defined(t) /\ Defined(t - 1) /\ Above(t) /\ ~Above(t - 1))
            /\ (Labels[t] = "DEATH") <=>
                   (Defined(t) /\ Defined(t - 1) /\ Below(t) /\ ~Below(t - 1))
            /\ (t = 1 \/ t <= sma_period \/ Tie(t)) => Labels[t] = "NONE"
            /\ SmaCol[t].nan <=> t < sma_period

\* A series with a GOLDEN row entered from a tie, a DEATH row, and a tie row.
C1_Witness ==
    /\ Returned
    /\ \E t, u, v \in Rows :
         /\ Labels[t] = "GOLDEN" /\ Tie(t - 1)
         /\ Labels[u] = "DEATH"
         /\ Tie(v) /\ v > 1 /\ Labels[v] = "NONE"

\* C2 as stated: over the whole series the numbers of GOLDEN and of DEATH
\* rows differ by at most 1.
C2_CountsDifferByOne ==
    Returned =>
        /\ Cardinality(GoldenRows) <= Cardinality(DeathRows) + 1
        /\ Cardinality(DeathRows) <= Cardinality(GoldenRows) + 1

EventRows == GoldenRows \cup DeathRows

NoTieBetweenEvents ==
    \A u \in Rows : Tie(u) => ~(\E t, v \in EventRows : t < u /\ u < v)

\* C2 as amended: between two GOLDEN rows there is a DEATH row or a row where
\* EMA equals SMA, between two DEATH rows a GOLDEN row or such a row; when no
\* row where EMA equals SMA lies between two event rows, the numbers of GOLDEN
\* and of DEATH rows differ by at most 1.
C2_AlternateUnlessTie ==
    Returned =>
        /\ \A t, v \in GoldenRows : t < v =>
               \E u \in Rows : t < u /\ u < v /\ (Labels[u] = "DEATH" \/ Tie(u))
        /\ \A t, v \in DeathRows : t < v =>
               \E u \in Rows : t < u /\ u < v /\ (Labels[u] = "GOLDEN" \/ Tie(u))
        /\ NoTieBetweenEvents =>
               /\ Cardinality(GoldenRows) <= Cardinality(DeathRows) + 1
               /\ Cardinality(DeathRows) <= Cardinality(GoldenRows) + 1

\* A series without a tie between events in which GOLDEN and DEATH alternate.
C2_Witness ==
    /\ Returned
    /\ NoTieBetweenEvents
    /\ \E t, u, v \in Rows :
         t < u /\ u < v /\ Labels[t] = "GOLDEN" /\ Labels[u] = "DEATH"
                        /\ Labels[v] = "GOLDEN"

IsRising ==
    /\ Returned
    /\ frame0.data["Close"] = RisingCloses
    /\ ema_period = RisingPeriods.ema
    /\ sma_period = RisingPeriods.sma

\* C3 as stated: the rising series has exactly one GOLDEN row, at the first
\* row where EMA is above SMA, and no DEATH row.
C3_RisingOneGolden ==
    IsRising =>
        /\ DeathRows = {}
        /\ \E g \in Rows :
             /\ GoldenRows = {g}
             /\ Defined(g) /\ Above(g)
             /\ \A t \in Rows : t < g => ~(Defined(t) /\ Above(t))

\* C3 as amended: the rising series has no GOLDEN and no DEATH row: SMA is
\* undefined at rows 1..25, EMA is above SMA at every row from 26 on, and row
\* 26 is NONE because SMA is undefined at row 25.
C3_RisingNoEvent ==
    IsRising =>
        /\ GoldenRows = {}
        /\ DeathRows = {}
        /\ \A t \in Rows : IF t < sma_period THEN ~Defined(t)
                           ELSE Defined(t) /\ Above(t)

C3_Witness ==
    /\ IsRising
    /\ NRows(ret) = Len(RisingCloses)
    /\ Above(sma_period) /\ ~Defined(sma_period - 1)
    /\ Labels[sma_period] = "NONE"

\* C10 as stated: the call leaves the object passed to it as it was, and
\* returns None for None and for the empty frame.
C10_ArgumentUnchanged ==
    pc_calc = "returned" =>
        /\ frame = frame0
        /\ (frame0.isNone \/ IsEmpty(frame0)) => ret.isNone

\* C10 as amended: for None and for the empty frame the call returns None and
\* leaves the object as it was; otherwise it sets the columns EMA<ema_period>,
\* SMA<sma_period> and Crossover of the object passed to it, leaves the index
\* and every other column unchanged, and returns that object.
C10_ColumnsAddedInPlace ==
    pc_calc = "returned" =>
        IF frame0.isNone \/ IsEmpty(frame0)
        THEN ret.isNone /\ frame = frame0
        ELSE /\ Columns(frame) = Columns(frame0) \cup
                    {EmaName(ema_period), SmaName(sma_period), "Crossover"}
             /\ \A c \in Columns(frame0) \
                      {EmaName(ema_period), SmaName(sma_period), "Crossover"} :
                    frame.data[c] = frame0.data[c]
             /\ frame.index = frame0.index
             /\ ~ret.isNone
             /\ ret = frame

C10_Witness ==
    /\ pc_calc = "returned"
    /\ ~frame0.isNone
    /\ ~IsEmpty(frame0)
    /\ "Crossover" \in Columns(frame)
    /\ "Crossover" \notin Columns(frame0)

(***************************************************************************)
(* Properties of the dashboard scan, checked under Spec (C9: SpecCancel).  *)
(***************************************************************************)
Range(seq) == {seq[k] : k \in DOMAIN seq}

TableShown == pc = "shown" /\ message = ""

\* C4 as stated: the sorted table is by date descending, and two events of
\* one date are in ascending order of their symbols.
C4_SortedDateThenSymbol ==
    TableShown =>
        \A j, k \in DOMAIN df_crossover : j < k =>
            \/ df_crossover[j]["Date"] > df_crossover[k]["Date"]
            \/ /\ df_crossover[j]["Date"] = df_crossover[k]["Date"]
               /\ SymbolLess(df_crossover[j]["Symbol"], df_crossover[k]["Symbol"])

\* C4 as amended: the sorted table holds the collected events, each once,
\* by date descending; the order of two events of one date is not determined
\* by their symbols.
C4_SortedByDate ==
    TableShown =>
        /\ Len(df_crossover) = Len(crossover_data)
        /\ Range(df_crossover) = Range(crossover_data)
        /\ \A j, k \in DOMAIN df_crossover : j < k =>
               df_crossover[j]["Date"] >= df_crossover[k]["Date"]

\* A table with events of two dates and two events of one date.
C4_Witness ==
    /\ TableShown
    /\ \E j, k, m \in DOMAIN df_crossover :
         /\ j < k /\ k < m
         /\ df_crossover[j]["Date"] = df_crossover[k]["Date"]
         /\ df_crossover[k]["Date"] > df_crossover[m]["Date"]

Failed(k) == fetch_log[k] \in {"raise", "empty"}

\* C5: an iteration whose fetch raised or returned an empty history adds
\* nothing to crossover_data and leaves the loop running; an iteration whose
\* fetch returned data appends that symbol's events, whatever happened to the
\* symbols before it; the table is made only when every symbol has been
\* through the loop.
C5_FailureIsSkipped ==
    [][/\ (i' = i + 1 /\ fetch_log'[i'] \in {"raise", "empty"}) =>
            /\ crossover_data' = crossover_data
            /\ pc' = "scan"
       /\ (i' = i + 1 /\ fetch_log'[i'] = "data") =>
            crossover_data' = crossover_data \o
                CollectedFrom(symbols[i'], df', days_to_look_back, ema_period,
                              sma_period)
       /\ pc' = "shown" => i' = Len(symbols) /\ Len(fetch_log') = Len(symbols)
      ]_vars

\* A failed symbol followed by a symbol that contributed events.
C5_Witness ==
    /\ pc = "shown"
    /\ \E j, k \in 1..i :
         /\ j < k
         /\ fetch_log[j] = "raise"
         /\ \A r \in Range(crossover_data) : r["Symbol"] # symbols[j]
         /\ \E r \in Range(crossover_data) : r["Symbol"] = symbols[k]

\* a/b < c/d for positive denominators.
RatioLess(x, y) == x[1] * y[2] < y[1] * x[2]

\* C6: after k symbols exactly k values have been reported, the j-th being
\* j/n whatever the fetch did; the values increase strictly, the bar shows
\* the last one, and when the loop has ended the last one is 1.
C6_ProgressPerSymbol ==
    pc \in {"scan", "shown"} =>
        /\ Len(progress_calls) = i
        /\ Len(fetch_log) = i
        /\ \A j \in 1..i : progress_calls[j] = <<j, Len(symbols)>>
        /\ \A j \in 1..i : j < i => RatioLess(progress_calls[j], progress_calls[j + 1])
        /\ i >= 1 => progress_bar = progress_calls[i]
        /\ (pc = "shown" /\ Len(symbols) >= 1) =>
               progress_calls[i][1] = progress_calls[i][2]

\* A finished scan of two or more symbols, one whose fetch failed and one
\* whose fetch returned data.
C6_Witness ==
    /\ pc = "shown"
    /\ Len(symbols) >= 2
    /\ progress_calls[Len(symbols)] = <<Len(symbols), Len(symbols)>>
    /\ \E j, k \in 1..i : Failed(j) /\ fetch_log[k] = "data"

\* The events in crossover_data of the symbol the loop handled last.
LastEvents ==
    LET Mine(r) == r["Symbol"] = symbols[i]
    IN  SelectSeq(crossover_data, Mine)

\* The rows of df within its last min(days_to_look_back, length) rows whose
\* crossover is not NONE.
WindowRows ==
    {t \in 1..NRows(df) :
        /\ t > NRows(df) - Min(days_to_look_back, NRows(df))
        /\ df.data["Crossover"][t] # "NONE"}

\* C7: the events collected for a symbol are exactly the rows of its
\* indicator frame that lie in the last min(N, L) rows and are not NONE, in
\* row order, each with that row's date, close and crossover.
C7_TrailingRowsOnly ==
    (pc \in {"scan", "shown"} /\ i >= 1) =>
        IF df.isNone THEN LastEvents = <<>>
        ELSE /\ Len(LastEvents) = Cardinality(WindowRows)
             /\ \A t \in WindowRows : \E k \in DOMAIN LastEvents :
                    /\ LastEvents[k]["Date"] = df.index[t]
                    /\ LastEvents[k]["Crossover"] = df.data["Crossover"][t]
                    /\ LastEvents[k]["Price"] = df.data["Close"][t]
             /\ \A j, k \in DOMAIN LastEvents : j < k =>
                    LastEvents[j]["Date"] < LastEvents[k]["Date"]

\* A symbol with a crossover before the window, which is not collected, and
\* one inside it, which is.
C7_Witness ==
    /\ pc \in {"scan", "shown"}
    /\ i >= 1
    /\ ~df.isNone
    /\ days_to_look_back < NRows(df)
    /\ WindowRows # {}
    /\ \E t \in 1..NRows(df) :
         /\ t <= NRows(df) - days_to_look_back
         /\ df.data["Crossover"][t] # "NONE"
         /\ \A r \in Range(LastEvents) : r["Date"] # df.index[t]

RowsOfKind(rows, kind) == {k \in DOMAIN rows : rows[k]["Crossover"] = kind}

\* C8: the filtered table holds exactly the events of the sorted table whose
\* crossover is in the filter, in the same order (none for the empty filter);
\* the two counts shown are the numbers of GOLDEN and of DEATH events in the
\* filtered table; and filtering by both kinds keeps every event that
\* filtering by one kind keeps.
C8_FilterAndCounts ==
    TableShown =>
        /\ signal_filter \subseteq SignalOptions
        /\ \A r \in Range(df_crossover) :
               r \in Range(filtered_df) <=> r["Crossover"] \in signal_filter
        /\ Range(filtered_df) \subseteq Range(df_crossover)
        /\ Len(filtered_df) =
               Cardinality({k \in DOMAIN df_crossover :
                               df_crossover[k]["Crossover"] \in signal_filter})
        /\ signal_filter = {} => filtered_df = <<>>
        /\ metrics = << <<"Golden Crosses",
                          Cardinality(RowsOfKind(filtered_df, "GOLDEN"))>>,
                        <<"Death Crosses",
                          Cardinality(RowsOfKind(filtered_df, "DEATH"))>> >>
        /\ Range(FilterSignals(df_crossover, {"GOLDEN"})) \cup
           Range(FilterSignals(df_crossover, {"DEATH"}))
               \subseteq Range(FilterSignals(df_crossover, SignalOptions))
        /\ \A kind \in SignalOptions :
               Len(FilterSignals(df_crossover, {kind})) =
                   Cardinality(RowsOfKind(df_crossover, kind))

\* A table with both kinds of event filtered down to one kind.
C8_Witness ==
    /\ TableShown
    /\ signal_filter = {"GOLDEN"}
    /\ RowsOfKind(df_crossover, "DEATH") # {}
    /\ filtered_df # <<>>
    /\ metrics[2][2] = 0

====
